---- MODULE Spec2Model ----
(***************************************************************************)
(* The pyramid wavefront sensor tutorial notebook                          *)
(* (doc/tutorial_notebooks/PyramidWFS/PyramidWFS.ipynb) as a state         *)
(* machine: the notebook's globals are the variables, every statement (or  *)
(* group of statements without effect on each other) is one action, and    *)
(* the cells run top to bottom.                                            *)
(*                                                                         *)
(* Numbers.  Lengths are integers in units of wavelength_wfs / 100         *)
(* (8.42 nm), times are integers in milliseconds.  An array of floats      *)
(* whose entries are fractions is a "field" [num |-> <<..>>, den |-> d]:   *)
(* entry p is num[p] / den, kept in lowest terms, so that two fields are   *)
(* equal exactly when the arrays are.  The actuators of the deformable     *)
(* mirror are integers (the mirror's resolution is one length unit); the   *)
(* value written to them is rounded to the nearest unit.                   *)
(*                                                                         *)
(* The optics library the notebook calls (DeformableMirror,                *)
(* PyramidWavefrontSensorOptics, NoiselessDetector, large_poisson,         *)
(* inverse_tikhonov, FraunhoferPropagator, make_pupil_grid) is modelled    *)
(* from its description: a sensor whose image is linear in the mirror      *)
(* shape, a detector that adds up charge until it is read, photon noise as *)
(* a choice among the counts near the mean.                                *)
(***************************************************************************)
EXTENDS Integers, Sequences, FiniteSets, TLC

\* ---------------------------------------------------------------- bounds

\* Number of different shapes deformable_mirror.random can draw.
MaxSeed == 2
\* Photon flux of the closed-loop wavefront (3.9E10 photons/s in the
\* notebook), scaled down to a small number of charge units per second.
LoopFlux == 3
\* Largest deviation of a photon count from its mean that large_poisson draws.
MaxNoise == 1
\* Number of detector pixels whose count can deviate in one exposure.
NoisyPixels == 1
\* Largest factor by which a raw image is scaled when comparing normalizations.
MaxScale == 3
\* The linear, noise-free loop: number of actuators, and the smallest input
\* amplitude in steps of the mirror's resolution (fine enough that twenty
\* iterations do not reach the resolution).
LinModes == 2
LinAmp == 4000000

\* ------------------------------------------------------ program constants

\* wavelength_wfs = 842.0E-9 m, in units of 8.42 nm.
wavelength_wfs == 100
\* telescope_diameter = 6.5 m, in centimetres.
telescope_diameter == 650
\* stellar_magnitude = 0
stellar_magnitude == 0
\* num_act = 10
num_act == 10
\* delta_t = 1E-3 s, in milliseconds.
delta_t == 1
\* The literal 1 passed to camera.integrate: one second, in milliseconds.
IntegrationTime == 1000
\* leakage = 0.01 and gain = 0.5 as fractions.
leakage == [n |-> 1, d |-> 100]
gain == [n |-> 1, d |-> 2]
\* range(10) of each closed-loop cell.
NumIterations == 10
\* for s in [1, -1]
ProbeSigns == <<1, -1>>
\* probe_amp = 0.01 * wavelength_wfs
probe_amp == wavelength_wfs \div 100
\* The argument of deformable_mirror.random: 0.1 * wavelength_wfs.
RandomRms == wavelength_wfs \div 10
\* zero_magnitude_flux (3.9E10 photons/s), in the model's charge units.
zero_magnitude_flux == LoopFlux
\* pitch = telescope_diameter / num_act
pitch == telescope_diameter \div num_act
\* milliseconds per second: wavefront power is per second.
MsPerSecond == 1000

\* -------------------------------------------------------------- arithmetic

Abs(x) == IF x < 0 THEN -x ELSE x

RECURSIVE GCD(_, _)
GCD(a, b) == IF b = 0 THEN a ELSE GCD(b, a % b)

\* s[lo] + ... + s[hi], by halves.
RECURSIVE SumRange(_, _, _)
SumRange(s, lo, hi) ==
    IF lo > hi THEN 0
    ELSE IF lo = hi THEN s[lo]
    ELSE LET mid == (lo + hi) \div 2
         IN  SumRange(s, lo, mid) + SumRange(s, mid + 1, hi)

\* np.sum of an array.
Sum(s) == SumRange(s, 1, Len(s))

\* The greatest common divisor of |s[lo]|, ..., |s[hi]| (0 if all are 0).
RECURSIVE GCDRange(_, _, _)
GCDRange(s, lo, hi) ==
    IF lo > hi THEN 0
    ELSE IF lo = hi THEN Abs(s[lo])
    ELSE LET mid == (lo + hi) \div 2
         IN  GCD(GCDRange(s, lo, mid), GCDRange(s, mid + 1, hi))

\* A fraction n / d in lowest terms, d > 0.
Frac(n, d) ==
    LET g == GCD(Abs(d), Abs(n))
        sg == IF d < 0 THEN -1 ELSE 1
    IN  [n |-> sg * (n \div g), d |-> sg * (d \div g)]

\* The field num / den in lowest terms.
Field(num, den) ==
    LET g == GCD(den, GCDRange(num, 1, Len(num)))
    IN  [num |-> [p \in DOMAIN num |-> num[p] \div g], den |-> den \div g]

\* An array of zeros, np.zeros((n,)); as a field, the scalar 0 broadcast.
Zeros(n) == [p \in 1..n |-> 0]
ZeroField(n) == [num |-> Zeros(n), den |-> 1]
NoField == [num |-> << >>, den |-> 1]

\* f - g, entry by entry.
FSub(f, g) ==
    Field([p \in DOMAIN f.num |-> f.num[p] * g.den - g.num[p] * f.den],
          f.den * g.den)

\* f + g, entry by entry.
FAdd(f, g) ==
    Field([p \in DOMAIN f.num |-> f.num[p] * g.den + g.num[p] * f.den],
          f.den * g.den)

\* s * f / k for integers s and k > 0.
FScale(s, f, k) == Field([p \in DOMAIN f.num |-> s * f.num[p]], f.den * k)

\* Sum of the entries of a field, as a fraction.
FSum(f) == Frac(Sum(f.num), f.den)

\* An array of integers as a field (not reduced: the array as it is).
RawField(raw) == [num |-> raw, den |-> 1]

\* A faulty variant of the operator below: the division is left out.
NormalizeSkipped(f) == f

\* image /= image.sum(): every entry divided by the total of the array.
Normalize(f) == Field(f.num, Sum(f.num))

\* k * f for an integer k > 0, entry by entry (not reduced).
Scaled(k, f) == [num |-> [p \in DOMAIN f.num |-> k * f.num[p]], den |-> f.den]

\* The sum of row[p] * col[p] over the entries p of S.
RECURSIVE SumProducts(_, _, _)
SumProducts(S, row, col) ==
    IF S = {} THEN 0
    ELSE LET p == CHOOSE q \in S : TRUE
         IN  row[p] * col[p] + SumProducts(S \ {p}, row, col)

\* row . f for a row of a matrix and a field: a fraction.  Only the entries
\* where the row is not zero contribute.
Dot(row, f) ==
    Frac(SumProducts({p \in DOMAIN f.num : row.num[p] # 0}, row.num, f.num),
         row.den * f.den)

\* matrix.dot(f): one fraction per row.
MatDot(m, f) == [j \in DOMAIN m |-> Dot(m[j], f)]

\* x / y rounded to the nearest integer (halves up), y > 0.
Round(x, y) == (2 * x + y) \div (2 * y)

\* ------------------------------------------------------- deformable mirror

\* make_pupil_grid(n, telescope_diameter): the n x n grid of points centred
\* on the axis, in units of half the grid spacing.
PupilGrid(n) ==
    {<<2 * i + 1 - n, 2 * j + 1 - n>> : i \in 0..(n - 1), j \in 0..(n - 1)}

\* poke_centers: the grid points with r < telescope_diameter / 2 (r is
\* sqrt(x^2 + y^2) half pitches, so r < D / 2 is (x^2 + y^2) pitch^2 < D^2).
PokeCenters ==
    {c \in PupilGrid(num_act) :
        (c[1] * c[1] + c[2] * c[2]) * pitch * pitch
            < telescope_diameter * telescope_diameter}

\* Wavefront(aperture, wavelength) with total_power set: a flat wavefront.
\* phase[j] is the wavefront's aberration along mirror mode j.
Wavefront(n, power) == [power |-> power, phase |-> Zeros(n)]
NoWavefront == [power |-> 0, phase |-> << >>]

\* deformable_mirror.forward(wf): the mirror shape is added to the wavefront.
DMForward(act, w) ==
    [power |-> w.power, phase |-> [j \in DOMAIN w.phase |-> w.phase[j] + act[j]]]

\* deformable_mirror.random(rms): one draw per actuator, here one of MaxSeed
\* tables of deviates (in tenths of the rms), none of them zero.
Deviates == <<-12, 5, -3, 9, 1, -8, 14, -6>>
RandomShape(seed, n) ==
    [j \in 1..n |->
        (RandomRms * Deviates[((j * seed + seed) % Len(Deviates)) + 1]) \div 10]

\* deformable_mirror.opd: the surface, mode by mode.
Opd(act) == act

\* aperture * (opd - mean(opd[aperture > 0]))
MeanRemoved(opd) ==
    Field([j \in DOMAIN opd |-> Len(opd) * opd[j] - Sum(opd)], Len(opd))

\* ------------------------------------------------------------------ sensor

\* Intensity of an unaberrated wavefront on each detector pixel.
Bias == 16

\* pwfs.forward(wf): mode j moves light from pixel 2j to pixel 2j - 1, in
\* proportion to the aberration; the total is the same for every wavefront.
PwfsForward(w) ==
    [power |-> w.power,
     pattern |-> [p \in 1..(2 * Len(w.phase)) |->
                    IF p % 2 = 1 THEN Bias + w.phase[(p + 1) \div 2]
                                 ELSE Bias - w.phase[p \div 2]]]
NoImagePlane == [power |-> 0, pattern |-> << >>]

\* NoiselessDetector(): no charge, nothing integrated.
NewDetector == [charge |-> << >>, exposures |-> 0, time |-> 0]

\* camera.integrate(wf, dt): the charge grows by power * dt on every pixel.
Integrate(cam, w, dt) ==
    LET add == [p \in DOMAIN w.pattern |->
                    (w.power * dt * w.pattern[p]) \div MsPerSecond]
    IN  [charge |-> IF cam.exposures = 0 THEN add
                    ELSE [p \in DOMAIN add |-> cam.charge[p] + add[p]],
         exposures |-> cam.exposures + 1,
         time |-> cam.time + dt]

\* camera.read_out(): the image is returned and the charge is reset.
ReadOutImage(cam) == cam.charge
ReadOutReset(cam) == NewDetector

\* large_poisson(image): photon counts near the mean; at most one of the
\* first NoisyPixels pixels deviates, by at most MaxNoise, never below zero.
LargePoisson(img) ==
    {img} \cup
    {[img EXCEPT ![p] = img[p] + e] :
        p \in {q \in DOMAIN img : q <= NoisyPixels},
        e \in {x \in (-MaxNoise)..MaxNoise : x # 0}}

\* inverse_tikhonov(slopes.transformation_matrix): the pseudo-inverse of the
\* matrix whose columns are the responses.  Row j is column j divided by its
\* squared norm (the columns of this sensor are orthogonal).
InverseTikhonov(cols) ==
    [j \in DOMAIN cols |->
        LET c == cols[j]
            norm2 == Sum([p \in DOMAIN c.num |-> c.num[p] * c.num[p]])
        IN  IF norm2 = 0 THEN ZeroField(Len(c.num))
            ELSE Field([p \in DOMAIN c.num |-> c.num[p] * c.den], norm2)]

\* propagator.forward(wf).power.max(): the peak of the focal-plane image
\* falls with the squared aberration.
PeakScale == 32768
PeakPower(w) ==
    LET s == Sum([j \in DOMAIN w.phase |-> w.phase[j] * w.phase[j]])
    IN  w.power * (IF s < PeakScale THEN PeakScale - s ELSE 0)

\* -------------------------------------------------------------- controller

\* A faulty variant: the correction is added, not subtracted.
LeakyIntegratorWrongSign(act, r) ==
    [j \in DOMAIN act |->
        Round((leakage.d - leakage.n) * act[j] * gain.d * r[j].d
                + gain.n * r[j].n * leakage.d,
              leakage.d * gain.d * r[j].d)]
\* A faulty variant: the leakage is left out, a pure integrator.
LeakyIntegratorNoLeak(act, r) ==
    [j \in DOMAIN act |->
        Round(act[j] * gain.d * r[j].d - gain.n * r[j].n, gain.d * r[j].d)]
\* (1 - leakage) * actuators - gain * reconstruction_matrix.dot(diff_image),
\* r being the product reconstruction_matrix.dot(diff_image).
LeakyIntegrator(act, r) ==
    [j \in DOMAIN act |->
        Round((leakage.d - leakage.n) * act[j] * gain.d * r[j].d
                - gain.n * r[j].n * leakage.d,
              leakage.d * gain.d * r[j].d)]

\* ------------------------------------------------------------------- state

VARIABLES
    pc,                     \* the statement the notebook executes next
    cell,                   \* 0 before the closed loop, then 1 or 2
    num_modes,              \* poke_centers.x.size
    actuators,              \* deformable_mirror.actuators
    camera,                 \* the detector: charge, exposures since read out
    wf,                     \* the calibration wavefront
    image_ref,              \* the reference image
    slopes,                 \* the list of responses
    ind,                    \* actuator being calibrated, from 0
    s_idx,                  \* position in [1, -1]
    slope,                  \* response being accumulated
    dm_wf, wfs_wf, image,   \* locals of the calibration loop
    reconstruction_matrix,
    wf_wfs,                 \* the closed-loop wavefront
    input_opd, Inorm, PSF_in, input_strehl,
    i,                      \* iteration of the running closed-loop cell
    wf_dm, wf_pyr, wfs_image, diff_image,
    PSF_out, residual_opd, strehl,
    updates,                \* history: closed-loop writes of the actuators
    trace,                  \* history: statements of the running iteration
    marks,                  \* history: the actuators at the input and at
                            \* the end of each closed-loop cell
    frames                  \* history: images read from the camera

dmVars == <<num_modes, actuators>>
calibVars == <<wf, slopes, ind, s_idx, slope, dm_wf, wfs_wf, image>>
statVars == <<input_opd, Inorm, PSF_in, input_strehl>>
loopVars == <<i, wf_dm, wf_pyr, wfs_image, diff_image>>
outVars == <<PSF_out, residual_opd, strehl>>
histVars == <<updates, trace, marks, frames>>

vars == <<pc, cell, dmVars, camera, calibVars, image_ref,
          reconstruction_matrix, wf_wfs, statVars, loopVars, outVars,
          histVars>>

NoFrac == [n |-> 0, d |-> 1]

\* The kernel after the import and parameter cells.
Init ==
    /\ pc = "make_dm"
    /\ cell = 0
    /\ num_modes = 0
    /\ actuators = << >>
    /\ camera = NewDetector
    /\ wf = NoWavefront
    /\ image_ref = NoField
    /\ slopes = << >>
    /\ ind = 0
    /\ s_idx = 1
    /\ slope = NoField
    /\ dm_wf = NoWavefront
    /\ wfs_wf = NoImagePlane
    /\ image = NoField
    /\ reconstruction_matrix = << >>
    /\ wf_wfs = NoWavefront
    /\ input_opd = NoField
    /\ Inorm = 0
    /\ PSF_in = NoFrac
    /\ input_strehl = NoFrac
    /\ i = 0
    /\ wf_dm = NoWavefront
    /\ wf_pyr = NoImagePlane
    /\ wfs_image = NoField
    /\ diff_image = NoField
    /\ PSF_out = NoFrac
    /\ residual_opd = NoField
    /\ strehl = NoFrac
    /\ updates = 0
    /\ trace = << >>
    /\ marks = << >>
    /\ frames = 0

\* ------------------------------------------------- mirror, sensor, reference

\* num_act ... deformable_mirror = DeformableMirror(dm_modes)
MakeDM ==
    /\ pc = "make_dm"
    /\ num_modes' = Cardinality(PokeCenters)
    /\ actuators' = Zeros(num_modes')
    /\ pc' = "make_wfs"
    /\ UNCHANGED <<cell, camera, calibVars, image_ref, reconstruction_matrix,
                   wf_wfs, statVars, loopVars, outVars, histVars>>

\* pwfs = PyramidWavefrontSensorOptics(...); camera = NoiselessDetector()
MakeWfs ==
    /\ pc = "make_wfs"
    /\ camera' = NewDetector
    /\ pc' = "ref_wf"
    /\ UNCHANGED <<cell, dmVars, calibVars, image_ref, reconstruction_matrix,
                   wf_wfs, statVars, loopVars, outVars, histVars>>

\* wf = Wavefront(magallen_aperture, wavelength_wfs); wf.total_power = 1
RefWavefront ==
    /\ pc = "ref_wf"
    /\ wf' = Wavefront(num_modes, 1)
    /\ pc' = "ref_integrate"
    /\ UNCHANGED <<cell, dmVars, camera, slopes, ind, s_idx, slope, dm_wf,
                   wfs_wf, image, image_ref, reconstruction_matrix, wf_wfs,
                   statVars, loopVars, outVars, histVars>>

\* camera.integrate(pwfs.forward(wf), 1)
RefIntegrate ==
    /\ pc = "ref_integrate"
    /\ camera' = Integrate(camera, PwfsForward(wf), IntegrationTime)
    /\ pc' = "ref_read_out"
    /\ UNCHANGED <<cell, dmVars, calibVars, image_ref, reconstruction_matrix,
                   wf_wfs, statVars, loopVars, outVars, histVars>>

\* A faulty variant of the statement below: the image is taken from the
\* detector without a read-out, so the charge stays.
RefReadOutKeepsCharge ==
    /\ pc = "ref_read_out"
    /\ image_ref' = RawField(camera.charge)
    /\ frames' = frames + 1
    /\ pc' = "ref_normalize"
    /\ UNCHANGED <<cell, dmVars, camera, calibVars, reconstruction_matrix,
                   wf_wfs, statVars, loopVars, outVars, updates, trace, marks>>

\* image_ref = camera.read_out()
RefReadOut ==
    /\ pc = "ref_read_out"
    /\ image_ref' = RawField(ReadOutImage(camera))
    /\ camera' = ReadOutReset(camera)
    /\ frames' = frames + 1
    /\ pc' = "ref_normalize"
    /\ UNCHANGED <<cell, dmVars, calibVars, reconstruction_matrix, wf_wfs,
                   statVars, loopVars, outVars, updates, trace, marks>>

\* image_ref /= image_ref.sum()
RefNormalize ==
    /\ pc = "ref_normalize"
    /\ image_ref' = Normalize(image_ref)
    /\ pc' = "calib_init"
    /\ UNCHANGED <<cell, dmVars, camera, calibVars, reconstruction_matrix,
                   wf_wfs, statVars, loopVars, outVars, histVars>>

\* -------------------------------------------------------------- calibration

\* probe_amp = ...; slopes = []; wf = Wavefront(...); wf.total_power = 1;
\* the for statement takes the first index.
CalibInit ==
    /\ pc = "calib_init"
    /\ slopes' = << >>
    /\ wf' = Wavefront(num_modes, 1)
    /\ ind' = 0
    /\ pc' = IF num_modes > 0 THEN "calib_mode" ELSE "mode_basis"
    /\ UNCHANGED <<cell, dmVars, camera, s_idx, slope, dm_wf, wfs_wf, image,
                   image_ref, reconstruction_matrix, wf_wfs, statVars,
                   loopVars, outVars, histVars>>

\* slope = 0; the inner for statement takes s = 1.
CalibMode ==
    /\ pc = "calib_mode"
    /\ slope' = ZeroField(2 * num_modes)
    /\ s_idx' = 1
    /\ pc' = "calib_poke"
    /\ UNCHANGED <<cell, dmVars, camera, wf, slopes, ind, dm_wf, wfs_wf,
                   image, image_ref, reconstruction_matrix, wf_wfs, statVars,
                   loopVars, outVars, histVars>>

\* amp = np.zeros((num_modes,)); amp[ind] = s * probe_amp;
\* deformable_mirror.actuators = amp
CalibPoke ==
    /\ pc = "calib_poke"
    /\ actuators' = [Zeros(num_modes) EXCEPT
                        ![ind + 1] = ProbeSigns[s_idx] * probe_amp]
    /\ pc' = "calib_forward"
    /\ UNCHANGED <<cell, num_modes, camera, calibVars, image_ref,
                   reconstruction_matrix, wf_wfs, statVars, loopVars, outVars,
                   histVars>>

\* dm_wf = deformable_mirror.forward(wf); wfs_wf = pwfs.forward(dm_wf)
CalibForward ==
    /\ pc = "calib_forward"
    /\ dm_wf' = DMForward(actuators, wf)
    /\ wfs_wf' = PwfsForward(dm_wf')
    /\ pc' = "calib_integrate"
    /\ UNCHANGED <<cell, dmVars, camera, wf, slopes, ind, s_idx, slope, image,
                   image_ref, reconstruction_matrix, wf_wfs, statVars,
                   loopVars, outVars, histVars>>

\* camera.integrate(wfs_wf, 1)
CalibIntegrate ==
    /\ pc = "calib_integrate"
    /\ camera' = Integrate(camera, wfs_wf, IntegrationTime)
    /\ pc' = "calib_read_out"
    /\ UNCHANGED <<cell, dmVars, calibVars, image_ref, reconstruction_matrix,
                   wf_wfs, statVars, loopVars, outVars, histVars>>

\* image = camera.read_out()
CalibReadOut ==
    /\ pc = "calib_read_out"
    /\ image' = RawField(ReadOutImage(camera))
    /\ camera' = ReadOutReset(camera)
    /\ frames' = frames + 1
    /\ pc' = "calib_normalize"
    /\ UNCHANGED <<cell, dmVars, wf, slopes, ind, s_idx, slope, dm_wf, wfs_wf,
                   image_ref, reconstruction_matrix, wf_wfs, statVars,
                   loopVars, outVars, updates, trace, marks>>

\* image /= np.sum(image)
CalibNormalize ==
    /\ pc = "calib_normalize"
    /\ image' = Normalize(image)
    /\ pc' = "calib_accumulate"
    /\ UNCHANGED <<cell, dmVars, camera, wf, slopes, ind, s_idx, slope, dm_wf,
                   wfs_wf, image_ref, reconstruction_matrix, wf_wfs, statVars,
                   loopVars, outVars, histVars>>

\* A faulty variant of the operator below: the sign s is left out.
ResponseNoSign(acc, s, img, ref) ==
    FAdd(acc, FScale(1, FSub(img, ref), 2 * probe_amp))

\* slope += s * (image - image_ref) / (2 * probe_amp)
Response(acc, s, img, ref) ==
    FAdd(acc, FScale(s, FSub(img, ref), 2 * probe_amp))

\* slope += ...; the inner for statement takes the next s, or ends.
CalibAccumulate ==
    /\ pc = "calib_accumulate"
    /\ slope' = Response(slope, ProbeSigns[s_idx], image, image_ref)
    /\ IF s_idx < Len(ProbeSigns)
         THEN s_idx' = s_idx + 1 /\ pc' = "calib_poke"
         ELSE s_idx' = s_idx /\ pc' = "calib_append"
    /\ UNCHANGED <<cell, dmVars, camera, wf, slopes, ind, dm_wf, wfs_wf,
                   image, image_ref, reconstruction_matrix, wf_wfs, statVars,
                   loopVars, outVars, histVars>>

\* slopes.append(slope); the for statement takes the next index, or ends.
CalibAppend ==
    /\ pc = "calib_append"
    /\ slopes' = Append(slopes, slope)
    /\ IF ind + 1 < num_modes
         THEN ind' = ind + 1 /\ pc' = "calib_mode"
         ELSE ind' = ind /\ pc' = "mode_basis"
    /\ UNCHANGED <<cell, dmVars, camera, wf, s_idx, slope, dm_wf, wfs_wf,
                   image, image_ref, reconstruction_matrix, wf_wfs, statVars,
                   loopVars, outVars, histVars>>

\* slopes = ModeBasis(slopes): the list becomes the columns of a matrix.
MakeModeBasis ==
    /\ pc = "mode_basis"
    /\ slopes' = [j \in 1..Len(slopes) |-> slopes[j]]
    /\ pc' = "invert"
    /\ UNCHANGED <<cell, dmVars, camera, wf, ind, s_idx, slope, dm_wf, wfs_wf,
                   image, image_ref, reconstruction_matrix, wf_wfs, statVars,
                   loopVars, outVars, histVars>>

\* reconstruction_matrix = inverse_tikhonov(slopes.transformation_matrix, ...)
Invert ==
    /\ pc = "invert"
    /\ reconstruction_matrix' = InverseTikhonov(slopes)
    /\ pc' = "init_wf"
    /\ UNCHANGED <<cell, dmVars, camera, calibVars, image_ref, wf_wfs,
                   statVars, loopVars, outVars, histVars>>

\* -------------------------------------------------- input wavefront, statistics

\* wf_wfs = Wavefront(magallen_aperture, wavelength_wfs);
\* wf_wfs.total_power = zero_magnitude_flux * 10**(-stellar_magnitude/2.5)
\* (the factor is 1 at stellar_magnitude = 0)
InitWavefront ==
    /\ pc = "init_wf"
    /\ stellar_magnitude = 0
    /\ wf_wfs' = Wavefront(num_modes, zero_magnitude_flux)
    /\ pc' = "random"
    /\ UNCHANGED <<cell, dmVars, camera, calibVars, image_ref,
                   reconstruction_matrix, statVars, loopVars, outVars,
                   histVars>>

\* deformable_mirror.random(0.1 * wavelength_wfs)
Random ==
    /\ pc = "random"
    /\ \E seed \in 1..MaxSeed : actuators' = RandomShape(seed, num_modes)
    /\ pc' = "input_stats"
    /\ UNCHANGED <<cell, num_modes, camera, calibVars, image_ref,
                   reconstruction_matrix, wf_wfs, statVars, loopVars, outVars,
                   histVars>>

\* PSF = propagator.forward(deformable_mirror.forward(wf_wfs)).power / Inorm;
\* its maximum, the Strehl ratio.
Strehl(act, w, norm) == Frac(PeakPower(DMForward(act, w)), norm)

\* A faulty variant of the statement below: the mirror is flattened once
\* the input statistics are taken.
MeasureInputFlattens ==
    /\ pc = "input_stats"
    /\ input_opd' = MeanRemoved(Opd(actuators))
    /\ Inorm' = PeakPower(wf_wfs)
    /\ PSF_in' = Strehl(actuators, wf_wfs, Inorm')
    /\ input_strehl' = PSF_in'
    /\ actuators' = Zeros(num_modes)
    /\ marks' = Append(marks, actuators)
    /\ cell' = 1
    /\ i' = 0
    /\ pc' = "dm_forward"
    /\ UNCHANGED <<num_modes, camera, calibVars, image_ref,
                   reconstruction_matrix, wf_wfs, wf_dm, wf_pyr, wfs_image,
                   diff_image, outVars, updates, trace, frames>>

\* input_opd = ...; Inorm = propagator.forward(wf_wfs).power.max();
\* PSF_in = ...; input_strehl = PSF_in.max().  The first closed-loop cell
\* follows (the rms of the phase is printed only and is not kept here).
MeasureInput ==
    /\ pc = "input_stats"
    /\ input_opd' = MeanRemoved(Opd(actuators))
    /\ Inorm' = PeakPower(wf_wfs)
    /\ PSF_in' = Strehl(actuators, wf_wfs, Inorm')
    /\ input_strehl' = PSF_in'
    /\ marks' = Append(marks, actuators)
    /\ cell' = 1
    /\ i' = 0
    /\ pc' = "dm_forward"
    /\ UNCHANGED <<dmVars, camera, calibVars, image_ref,
                   reconstruction_matrix, wf_wfs, wf_dm, wf_pyr, wfs_image,
                   diff_image, outVars, updates, trace, frames>>

\* -------------------------------------------------------------- closed loop
\* The two closed-loop cells hold the same statements; cell says which runs.

\* A faulty variant of the statement below: the wavefront after the mirror
\* is computed in the first iteration only and used again afterwards.
LoopDMForwardStale ==
    /\ pc = "dm_forward"
    /\ wf_dm' = IF i = 0 THEN DMForward(actuators, wf_wfs) ELSE wf_dm
    /\ trace' = <<"dm_forward">>
    /\ pc' = "pwfs_forward"
    /\ UNCHANGED <<cell, dmVars, camera, calibVars, image_ref,
                   reconstruction_matrix, wf_wfs, statVars, i, wf_pyr,
                   wfs_image, diff_image, outVars, updates, marks, frames>>

\* wf_dm = deformable_mirror.forward(wf_wfs)
LoopDMForward ==
    /\ pc = "dm_forward"
    /\ wf_dm' = DMForward(actuators, wf_wfs)
    /\ trace' = <<"dm_forward">>
    /\ pc' = "pwfs_forward"
    /\ UNCHANGED <<cell, dmVars, camera, calibVars, image_ref,
                   reconstruction_matrix, wf_wfs, statVars, i, wf_pyr,
                   wfs_image, diff_image, outVars, updates, marks, frames>>

\* wf_pyr = pwfs.forward(wf_dm)
LoopPwfsForward ==
    /\ pc = "pwfs_forward"
    /\ wf_pyr' = PwfsForward(wf_dm)
    /\ trace' = Append(trace, "pwfs_forward")
    /\ pc' = "integrate"
    /\ UNCHANGED <<cell, dmVars, camera, calibVars, image_ref,
                   reconstruction_matrix, wf_wfs, statVars, i, wf_dm,
                   wfs_image, diff_image, outVars, updates, marks, frames>>

\* camera.integrate(wf_pyr, 1)
LoopIntegrate ==
    /\ pc = "integrate"
    /\ camera' = Integrate(camera, wf_pyr, IntegrationTime)
    /\ trace' = Append(trace, "integrate")
    /\ pc' = "read_out"
    /\ UNCHANGED <<cell, dmVars, calibVars, image_ref, reconstruction_matrix,
                   wf_wfs, statVars, loopVars, outVars, updates, marks, frames>>

\* wfs_image = large_poisson(camera.read_out()).astype(np.float)
LoopReadOut ==
    /\ pc = "read_out"
    /\ \E counts \in LargePoisson(ReadOutImage(camera)) :
            wfs_image' = RawField(counts)
    /\ camera' = ReadOutReset(camera)
    /\ frames' = frames + 1
    /\ trace' = Append(trace, "read_out")
    /\ pc' = "normalize"
    /\ UNCHANGED <<cell, dmVars, calibVars, image_ref, reconstruction_matrix,
                   wf_wfs, statVars, i, wf_dm, wf_pyr, diff_image, outVars,
                   updates, marks>>

\* wfs_image /= np.sum(wfs_image)
LoopNormalize ==
    /\ pc = "normalize"
    /\ wfs_image' = Normalize(wfs_image)
    /\ trace' = Append(trace, "normalize")
    /\ pc' = "subtract"
    /\ UNCHANGED <<cell, dmVars, camera, calibVars, image_ref,
                   reconstruction_matrix, wf_wfs, statVars, i, wf_dm, wf_pyr,
                   diff_image, outVars, updates, marks, frames>>

\* diff_image = wfs_image - image_ref
LoopSubtract ==
    /\ pc = "subtract"
    /\ diff_image' = FSub(wfs_image, image_ref)
    /\ trace' = Append(trace, "subtract")
    /\ pc' = "update"
    /\ UNCHANGED <<cell, dmVars, camera, calibVars, image_ref,
                   reconstruction_matrix, wf_wfs, statVars, i, wf_dm, wf_pyr,
                   wfs_image, outVars, updates, marks, frames>>

\* A faulty variant of the statement below: the loop runs once too often.
LoopUpdateOffByOne ==
    /\ pc = "update"
    /\ actuators' = LeakyIntegrator(actuators,
                                    MatDot(reconstruction_matrix, diff_image))
    /\ updates' = updates + 1
    /\ trace' = Append(trace, "update")
    /\ i' = i + 1
    /\ pc' = IF i + 1 <= NumIterations THEN "dm_forward" ELSE "psf_out"
    /\ UNCHANGED <<cell, num_modes, camera, calibVars, image_ref,
                   reconstruction_matrix, wf_wfs, statVars, wf_dm, wf_pyr,
                   wfs_image, diff_image, outVars, marks, frames>>

\* deformable_mirror.actuators = (1-leakage) * deformable_mirror.actuators
\*     - gain * reconstruction_matrix.dot(diff_image);
\* the for statement takes the next i, or ends.
LoopUpdate ==
    /\ pc = "update"
    /\ actuators' = LeakyIntegrator(actuators,
                                    MatDot(reconstruction_matrix, diff_image))
    /\ updates' = updates + 1
    /\ trace' = Append(trace, "update")
    /\ i' = i + 1
    /\ pc' = IF i + 1 < NumIterations THEN "dm_forward" ELSE "psf_out"
    /\ UNCHANGED <<cell, num_modes, camera, calibVars, image_ref,
                   reconstruction_matrix, wf_wfs, statVars, wf_dm, wf_pyr,
                   wfs_image, diff_image, outVars, marks, frames>>

\* PSF_out = propagator.forward(deformable_mirror.forward(wf_wfs)).power/Inorm
PsfOut ==
    /\ pc = "psf_out"
    /\ PSF_out' = Strehl(actuators, wf_wfs, Inorm)
    /\ marks' = Append(marks, actuators)
    /\ pc' = "residual"
    /\ UNCHANGED <<cell, dmVars, camera, calibVars, image_ref,
                   reconstruction_matrix, wf_wfs, statVars, loopVars,
                   residual_opd, strehl, updates, trace, frames>>

\* residual_opd = ...; strehl = PSF_out.max(); then the second closed-loop
\* cell, or the end of the notebook.
MeasureResidual ==
    /\ pc = "residual"
    /\ residual_opd' = MeanRemoved(Opd(actuators))
    /\ strehl' = PSF_out
    /\ IF cell = 1
         THEN cell' = 2 /\ i' = 0 /\ pc' = "dm_forward"
         ELSE cell' = cell /\ i' = i /\ pc' = "done"
    /\ UNCHANGED <<dmVars, camera, calibVars, image_ref,
                   reconstruction_matrix, wf_wfs, statVars, wf_dm, wf_pyr,
                   wfs_image, diff_image, PSF_out, histVars>>

Next ==
    \/ MakeDM
    \/ MakeWfs
    \/ RefWavefront
    \/ RefIntegrate
    \/ RefReadOut
    \/ RefNormalize
    \/ CalibInit
    \/ CalibMode
    \/ CalibPoke
    \/ CalibForward
    \/ CalibIntegrate
    \/ CalibReadOut
    \/ CalibNormalize
    \/ CalibAccumulate
    \/ CalibAppend
    \/ MakeModeBasis
    \/ Invert
    \/ InitWavefront
    \/ Random
    \/ MeasureInput
    \/ LoopDMForward
    \/ LoopPwfsForward
    \/ LoopIntegrate
    \/ LoopReadOut
    \/ LoopNormalize
    \/ LoopSubtract
    \/ LoopUpdate
    \/ PsfOut
    \/ MeasureResidual

Spec == Init /\ [][Next]_vars


\* ------------------------------------------- the loop on a linear sensor
\* The closed loop under the model the reconstructor is built for: the
\* difference image is A . a for the interaction matrix A, without photon
\* noise, and reconstruction_matrix . A is the identity.  Here A is the
\* identity itself, the update is the notebook's statement (LoopUpdate), and
\* the mirror starts from a shape drawn by deformable_mirror.random.

\* The n x n identity matrix, row by row.
Identity(n) ==
    [j \in 1..n |-> [num |-> [p \in 1..n |-> IF p = j THEN 1 ELSE 0], den |-> 1]]

\* The input amplitudes: LinAmp or twice LinAmp, of either sign.
LinDraws == {LinAmp, -LinAmp, 2 * LinAmp, -2 * LinAmp}

InitLin ==
    /\ pc = "dm_forward"
    /\ cell = 1
    /\ num_modes = LinModes
    /\ actuators \in [1..LinModes -> LinDraws]
    /\ camera = NewDetector
    /\ wf = NoWavefront
    /\ image_ref = ZeroField(LinModes)
    /\ slopes = Identity(LinModes)
    /\ ind = 0
    /\ s_idx = 1
    /\ slope = NoField
    /\ dm_wf = NoWavefront
    /\ wfs_wf = NoImagePlane
    /\ image = NoField
    /\ reconstruction_matrix = InverseTikhonov(slopes)
    /\ wf_wfs = Wavefront(LinModes, 1)
    /\ input_opd = MeanRemoved(Opd(actuators))
    /\ Inorm = 0
    /\ PSF_in = NoFrac
    /\ input_strehl = NoFrac
    /\ i = 0
    /\ wf_dm = NoWavefront
    /\ wf_pyr = NoImagePlane
    /\ wfs_image = NoField
    /\ diff_image = NoField
    /\ PSF_out = NoFrac
    /\ residual_opd = NoField
    /\ strehl = NoFrac
    /\ updates = 0
    /\ trace = << >>
    /\ marks = <<actuators>>
    /\ frames = 0

\* Lines 296 to 303 on the linear sensor: diff_image = A . actuators.
LinMeasure ==
    /\ pc = "dm_forward"
    /\ wf_dm' = DMForward(actuators, wf_wfs)
    /\ diff_image' = [num |-> [p \in DOMAIN slopes |->
                                 Dot(slopes[p], RawField(wf_dm'.phase)).n],
                      den |-> 1]
    /\ trace' = <<"dm_forward", "pwfs_forward", "integrate", "read_out",
                  "normalize", "subtract">>
    /\ pc' = "update"
    /\ UNCHANGED <<cell, dmVars, camera, calibVars, image_ref,
                   reconstruction_matrix, wf_wfs, statVars, i, wf_pyr,
                   wfs_image, outVars, updates, marks, frames>>

\* The end of a closed-loop cell: the next cell, or the end of the notebook.
LinNextCell ==
    /\ pc = "psf_out"
    /\ marks' = Append(marks, actuators)
    /\ residual_opd' = MeanRemoved(Opd(actuators))
    /\ IF cell = 1
         THEN cell' = 2 /\ i' = 0 /\ pc' = "dm_forward"
         ELSE cell' = cell /\ i' = i /\ pc' = "done"
    /\ UNCHANGED <<dmVars, camera, calibVars, image_ref,
                   reconstruction_matrix, wf_wfs, statVars, wf_dm, wf_pyr,
                   wfs_image, diff_image, PSF_out, strehl, updates, trace,
                   frames>>

NextLin ==
    \/ LinMeasure
    \/ LoopUpdate
    \/ LinNextCell

SpecLin == InitLin /\ [][NextLin]_vars

\* ------------------------------------------------------------------ claims

One == [n |-> 1, d |-> 1]
Zero == [n |-> 0, d |-> 1]

\* The statements of one closed-loop iteration, in the order of the source.
LoopOrder ==
    <<"dm_forward", "pwfs_forward", "integrate", "read_out", "normalize",
      "subtract", "update">>
LoopPcs == {LoopOrder[k] : k \in 1..Len(LoopOrder)}
Position(p) == CHOOSE k \in 1..Len(LoopOrder) : LoopOrder[k] = p
InLoop == cell \in {1, 2} /\ pc \in LoopPcs

\* C1: in every iteration of both closed-loop cells the actuators become
\* 0.99 * a_t - 0.5 * (reconstruction_matrix . (wfs_image - image_ref)),
\* to the nearest step of the mirror, a_t being the actuators at the start
\* of the iteration; no other statement of the loop writes the actuators,
\* and the number of writes is the number of iterations completed.
C1_UpdateLaw ==
    [][/\ (InLoop /\ pc = "update") =>
            /\ LET diff == FSub(wfs_image, image_ref)
               IN  \A j \in 1..num_modes :
                    LET r == Dot(reconstruction_matrix[j], diff)
                        x == 99 * actuators[j] * r.d - 50 * r.n
                        y == 100 * r.d
                    IN  /\ 2 * (x - actuators'[j] * y) >= -y
                        /\ 2 * (x - actuators'[j] * y) < y
            /\ updates' = updates + 1
       /\ (InLoop /\ pc # "update") => actuators' = actuators
       /\ InLoop' => updates' = NumIterations * (cell' - 1) + i'
      ]_vars

\* C1 witness: the first iteration of the second cell has written actuators
\* that differ from those it started with.
C1_Witness ==
    /\ cell = 2 /\ pc = "dm_forward" /\ i = 1 /\ updates = NumIterations + 1
    /\ actuators # wf_dm.phase

\* C2: within an iteration the statements run once each in the order
\* mirror, sensor optics, detector, read-out, normalization, subtraction,
\* update; the image used by the update was measured with the actuators the
\* update replaces.
C2_OrderAndFreshness ==
    InLoop =>
        /\ pc # "dm_forward" => trace = SubSeq(LoopOrder, 1, Position(pc) - 1)
        /\ (pc = "dm_forward" /\ i > 0) => trace = LoopOrder
        /\ pc = "update" =>
            /\ wf_dm = DMForward(actuators, wf_wfs)
            /\ wf_pyr = PwfsForward(wf_dm)
            /\ \E counts \in LargePoisson(
                    Integrate(NewDetector, wf_pyr, IntegrationTime).charge) :
                    wfs_image = Normalize(RawField(counts))
            /\ diff_image = FSub(wfs_image, image_ref)

\* C2 witness: an update is about to use an image measured in a later
\* iteration than the first, with a mirror that is not flat.
C2_Witness ==
    /\ cell = 1 /\ pc = "update" /\ i = 3
    /\ \E j \in 1..num_modes : actuators[j] # 0

\* C3: every detector integration of the closed loop lasts delta_t.
C3_ExposureIsDeltaT ==
    (cell \in {1, 2} /\ pc = "read_out") => camera.time = delta_t

\* The statements before and after the calibration loop, in order, and the
\* statements of one pass of the inner calibration loop.
Prologue ==
    <<"make_dm", "make_wfs", "ref_wf", "ref_integrate", "ref_read_out",
      "ref_normalize", "calib_init">>
Interlude == <<"mode_basis", "invert", "init_wf", "random", "input_stats">>
ProbeOrder ==
    <<"calib_poke", "calib_forward", "calib_integrate", "calib_read_out",
      "calib_normalize", "calib_accumulate">>
IndexIn(seq, p) == CHOOSE k \in 1..Len(seq) : seq[k] = p
InSeq(seq, p) == \E k \in 1..Len(seq) : seq[k] = p

\* Statements one closed-loop cell executes, with the two that follow it.
CellLength == NumIterations * Len(LoopOrder) + 2
\* Statements the calibration of one actuator executes.
ModeLength == 2 + Len(ProbeSigns) * Len(ProbeOrder)

\* The number of statements the notebook has yet to execute.
Remaining ==
    LET n == IF pc = "make_dm" THEN Cardinality(PokeCenters) ELSE num_modes
        afterCalib == Len(Interlude) + 2 * CellLength
    IN  IF InSeq(Prologue, pc)
          THEN (Len(Prologue) - IndexIn(Prologue, pc) + 1)
                + n * ModeLength + afterCalib
        ELSE IF pc = "calib_mode"
          THEN (n - ind) * ModeLength + afterCalib
        ELSE IF InSeq(ProbeOrder, pc)
          THEN (n - ind) * ModeLength - 1
                - (s_idx - 1) * Len(ProbeOrder)
                - (IndexIn(ProbeOrder, pc) - 1) + afterCalib
        ELSE IF pc = "calib_append"
          THEN (n - ind - 1) * ModeLength + 1 + afterCalib
        ELSE IF InSeq(Interlude, pc)
          THEN (Len(Interlude) - IndexIn(Interlude, pc) + 1) + 2 * CellLength
        ELSE IF pc \in LoopPcs
          THEN (2 - cell) * CellLength + 2
                + (NumIterations - i) * Len(LoopOrder) - (Position(pc) - 1)
        ELSE IF pc = "psf_out" THEN (2 - cell) * CellLength + 2
        ELSE IF pc = "residual" THEN (2 - cell) * CellLength + 1
        ELSE 0

\* The labels of the statements of the notebook; the statement at a label
\* has no other condition to run than that the notebook is at it.
Statements ==
    {Prologue[k] : k \in 1..Len(Prologue)} \cup {"calib_mode", "calib_append"}
        \cup {ProbeOrder[k] : k \in 1..Len(ProbeOrder)}
        \cup {Interlude[k] : k \in 1..Len(Interlude)}
        \cup LoopPcs \cup {"psf_out", "residual"}

\* C4: the notebook always ends (every statement leaves one statement fewer
\* to execute, it leads to a statement or to the end, and only at the end
\* is there none left); the first closed-loop cell writes the actuators
\* exactly 10 times, the second exactly 10 more, and nothing between the
\* two cells writes them.
C4_TwentyUpdates ==
    [][/\ Remaining' = Remaining - 1
       /\ pc' \in Statements \cup {"done"}
       /\ pc' = "done" <=> Remaining' = 0
       /\ (pc' = "psf_out" /\ cell' = 1) => updates' = 10
       /\ (pc' = "psf_out" /\ cell' = 2) => updates' = 20
       /\ pc' = "done" => updates' = 20
       /\ pc \in {"psf_out", "residual"} => actuators' = actuators
       /\ updates' # updates => (pc = "update" /\ updates' = updates + 1)
      ]_vars

\* C4 witness: the end of the notebook, twenty updates applied.
C4_Witness == pc = "done" /\ updates = 20 /\ Len(marks) = 3

\* The normalized image of the probe of actuator j with sign s.
ProbeImage(j, s) ==
    Normalize(RawField(
        Integrate(NewDetector,
                  PwfsForward(DMForward([Zeros(num_modes) EXCEPT
                                            ![j] = s * probe_amp],
                                        Wavefront(num_modes, 1))),
                  IntegrationTime).charge))

\* C5: the actuators are calibrated in increasing order, each poked alone
\* by +probe_amp and then by -probe_amp; the response stored for actuator
\* ind is (image_plus - image_minus) / (2 * probe_amp), whatever the
\* reference image, and num_modes responses are stored.
C5_SymmetricDifference ==
    [][/\ pc = "calib_poke" =>
            actuators' = [j \in 1..num_modes |->
                            IF j = ind + 1
                              THEN (IF s_idx = 1 THEN probe_amp
                                                 ELSE -probe_amp)
                              ELSE 0]
       /\ pc = "calib_append" =>
            /\ Len(slopes) = ind
            /\ slopes' = Append(slopes,
                    FScale(1, FSub(ProbeImage(ind + 1, 1),
                                   ProbeImage(ind + 1, -1)),
                           2 * probe_amp))
       /\ pc' = "mode_basis" => Len(slopes') = num_modes
       /\ ind' # ind => (ind' = ind + 1 /\ pc = "calib_append")
      ]_vars

\* C5 witness: the calibration is over, and the last response is not zero.
C5_Witness ==
    /\ pc = "mode_basis" /\ num_modes > 0 /\ Len(slopes) = num_modes
    /\ slopes[num_modes] # ZeroField(2 * num_modes)

C7_Contraction ==
    [][/\ pc = "update" =>
            \A j \in 1..num_modes :
                /\ 2 * (49 * actuators[j] - 100 * actuators'[j]) >= -100
                /\ 2 * (49 * actuators[j] - 100 * actuators'[j]) < 100
                /\ Abs(actuators'[j]) < Abs(actuators[j])
       /\ Len(marks') > Len(marks) =>
            \A j \in 1..num_modes :
                Abs(marks'[Len(marks')][j]) < Abs(marks[Len(marks)][j])
      ]_vars

\* C7 witness: both cells have run on the linear sensor and the mirror is
\* not yet flat to its resolution.
C7_Witness ==
    /\ pc = "done" /\ updates = 2 * NumIterations /\ Len(marks) = 3
    /\ \A j \in 1..num_modes : actuators[j] # 0

\* C8: the actuator grid is 50 x 50 with pitch telescope_diameter / 50, and
\* num_modes counts its points inside the circle.
C8_FiftyActuators ==
    pc # "make_dm" =>
        /\ num_act = 50
        /\ pitch * 50 = telescope_diameter
        /\ Cardinality(PupilGrid(num_act)) = 50 * 50
        /\ num_modes = Cardinality(PokeCenters)

\* The statements that integrate, and those that read the camera out.
IntegratePcs == {"ref_integrate", "calib_integrate", "integrate"}
ReadOutPcs == {"ref_read_out", "calib_read_out", "read_out"}

\* C9: the camera is integrated and read out in turn: at every integrate
\* it holds no charge, at every read-out exactly one exposure, and the
\* notebook reads 1 + 2 * num_modes + 20 images.
C9_Alternation ==
    /\ camera.exposures <= 1
    /\ pc \in IntegratePcs => (camera.exposures = 0 /\ camera.charge = << >>)
    /\ pc \in ReadOutPcs => camera.exposures = 1
    /\ pc \notin ReadOutPcs => camera.exposures = 0
    /\ pc = "calib_init" => frames = 1
    /\ pc = "mode_basis" => frames = 1 + 2 * num_modes
    /\ pc = "done" => frames = 1 + 2 * num_modes + 2 * NumIterations

\* C9 witness: the last exposure of the notebook waits to be read.
C9_Witness ==
    /\ cell = 2 /\ pc = "read_out" /\ i = NumIterations - 1
    /\ camera.exposures = 1
    /\ frames = 2 * num_modes + 2 * NumIterations

\* C10: after the calibration only the last actuator is set, to -probe_amp;
\* random replaces the whole shape by a draw; the statistics cell does not
\* write the actuators and describes the shape the loop starts from; the
\* closed-loop cells leave the reference, the reconstructor, the wavefront
\* and the input statistics as they are.
C10_Frame ==
    [][/\ pc = "random" =>
            /\ actuators = [j \in 1..num_modes |->
                              IF j = num_modes THEN -probe_amp ELSE 0]
            /\ \E seed \in 1..MaxSeed :
                    actuators' = RandomShape(seed, num_modes)
       /\ pc = "input_stats" =>
            /\ actuators' = actuators
            /\ input_opd' = MeanRemoved(Opd(actuators'))
            /\ input_strehl' = Strehl(actuators', wf_wfs', Inorm')
            /\ PSF_in' = input_strehl'
            /\ pc' = "dm_forward" /\ cell' = 1 /\ i' = 0
       /\ cell >= 1 =>
            UNCHANGED <<image_ref, reconstruction_matrix, wf_wfs, Inorm,
                        input_opd, PSF_in, input_strehl>>
      ]_vars

\* C10 witness: the notebook has ended with a mirror shape other than the
\* input shape, which the input statistics still describe.
C10_Witness ==
    /\ pc = "done" /\ Len(marks) = 3
    /\ marks[3] # marks[1]
    /\ input_opd = MeanRemoved(Opd(marks[1]))

====
